---- MODULE Spec2Model ----
(***************************************************************************)
(* Model of the qchang-tweet notification pipeline.                        *)
(*                                                                         *)
(*   tweet/internal/post/service.go     CreateComment, publishNotification *)
(*   notification-service/cmd/main.go   handleConnections, handleMessages, *)
(*                                      connectToRabbitMQ                  *)
(*                                                                         *)
(* The notifier is one process with three kinds of goroutines: one         *)
(* handleConnections per client, the single handleMessages loop and the    *)
(* consumer goroutine started by connectToRabbitMQ.  They share the map    *)
(* ns.clients, which no lock guards, and the unbuffered channel            *)
(* ns.broadcast.  A map operation is therefore modelled as an interval:    *)
(* the step that enters it and the step in which it returns.  Statements   *)
(* that touch nothing shared are taken together with the map operation or  *)
(* the blocking call that follows them.  Two overlapping intervals are a   *)
(* data race; its outcomes are the ones a Go build produces: the runtime   *)
(* aborts the process ("fatal error: concurrent map writes" / "concurrent  *)
(* map iteration and map write"), or the race goes undetected and the      *)
(* racing write takes effect or is lost, while a racing read sees the map  *)
(* before or after the write.                                              *)
(*                                                                         *)
(* The tweet process is modelled for one CreateComment request at a time,  *)
(* one step per call that can fail, and for its AddLike requests           *)
(* (Service.AddLike), which run concurrently, one step per SQL statement.  *)
(***************************************************************************)
EXTENDS Integers, Sequences, FiniteSets, TLC

\* ------------------------------------------------------------------ bounds
NumConns == 2
MaxFrames == 1
MaxCalls == 1
NumLikeCalls == 2

Conns == 1..NumConns

\* the AddLike requests, which the server handles concurrently
LikeCalls == 1..NumLikeCalls

\* identifiers a request may carry
PostIDs == {"p1", "p2", "p3"}
ExistingPosts == {"p1", "p2"}
UserIDs == {"u1", "u2"}
FrameTexts == {<<"ping">>}

None == "none"

\* a nil []byte
NoMsg == <<>>

\* params of no request
NoParams == [postID |-> "", ownerID |-> ""]

\* arguments of no AddLike request
NoLikeArgs == [postID |-> "", userID |-> ""]

\* the nil *comment.Comment
NoComment == [id |-> 0, postID |-> "", ownerID |-> ""]

VARIABLES
  \* ---- notification-service process
  crashed,      \* the process has exited (log.Fatalf or a runtime fatal error)
  clients,      \* ns.clients: the keys of the map
  raced,        \* goroutines whose current map operation overlapped another
  hpc,          \* handleConnections: position of each client's goroutine
  hmsg,         \* handleConnections: the message read, not yet sent
  wsClosed,     \* ws.Close() / client.Close() has been called on the connection
  nframes,      \* frames read from clients so far
  bpc,          \* handleMessages: position
  bmsg,         \* handleMessages: message
  bcur,         \* handleMessages: client
  visited,      \* range ns.clients: keys produced in this iteration
  fresh,        \* range ns.clients: keys created since the iteration began
  kpc,          \* consumer goroutine: position
  kmsg,         \* consumer goroutine: msg.Body
  brokerQ,      \* the durable queue "notifications" of the broker
  \* ---- history of the notifier
  enq,          \* payloads in the order they went through ns.broadcast
  attempts,     \* per connection: the WriteMessage calls made on it
  atDequeue,    \* ns.clients when the current message was dequeued
  removedBeforeTurn, \* keys deleted in this cycle before the range reached them
  bdeleted,     \* connections on which handleMessages completed delete
  upgradeFailed, \* upgrade attempts that returned an error
  kreceived,    \* deliveries the consumer goroutine took from the queue, in order
  ksent,        \* payloads the consumer goroutine sent on ns.broadcast, in order
  openAtDequeue, \* connections whose handler was Open when the current message was dequeued
  bfrom,        \* who sent the current message: a client's handler or the consumer (0: none yet)
  \* ---- tweet process: one CreateComment request at a time
  cpc,          \* position of the request in handler.CreateComment / Service.CreateComment
  ncalls,       \* requests started so far; the id of the comment of the current one
  cparams,      \* params: PostID, OwnerID
  comments,     \* rows of the comments table
  cmessage,     \* notificationMessage
  amqpConn,     \* publishNotification: conn is open
  amqpChan,     \* publishNotification: ch is open
  puberr,       \* what publishNotification returned
  cret,         \* what Service.CreateComment returned: <<comment, err>>
  chttp,        \* the status the handler answered with
  \* ---- history of the request
  ptrace,       \* the broker calls publishNotification made, with their outcome
  clogged,      \* the request logged "Failed to publish notification"
  published,    \* per message put onto the queue: the id of the comment it is about
  \* ---- tweet process: the AddLike requests
  lpc,          \* position of each request in handler.AddLike / Service.AddLike
  largs,        \* postID, userID of each request
  lret,         \* the error Service.AddLike returned
  lhttp,        \* the status the handler answered with
  likes,        \* rows of the likes table
  postLikes,    \* posts.likes of every post
  \* ---- history of the AddLike requests
  lsawLike,     \* requests that reached likeRepo.Create with a like of (post, user) stored
  lincr         \* requests whose UPDATE of posts.likes took effect

nvars == <<crashed, clients, raced, hpc, hmsg, wsClosed, nframes, bpc, bmsg, bcur,
           visited, fresh, kpc, kmsg, brokerQ, enq, attempts, atDequeue,
           removedBeforeTurn, bdeleted, upgradeFailed, kreceived, ksent,
           openAtDequeue, bfrom>>

cvars == <<cpc, ncalls, cparams, comments, cmessage, amqpConn, amqpChan, puberr, cret,
           chttp, ptrace, clogged, published>>

lvars == <<lpc, largs, lret, lhttp, likes, postLikes, lsawLike, lincr>>

tvars == <<cvars, lvars>>

vars == <<nvars, tvars>>

\* the goroutine of handleMessages, as a member of raced
Broadcaster == 0

\* the consumer goroutine, as a sender on ns.broadcast
Consumer == -1

\* goroutines currently inside an operation on ns.clients
InRegistryAccess ==
  {c \in Conns : hpc[c] \in {"adding", "deleting"}}
    \cup (IF bpc \in {"next", "deleting"} THEN {Broadcaster} ELSE {})

\* raced after goroutine u enters a map operation: u overlaps whoever is inside
EnterAccess(u) ==
  LET others == InRegistryAccess \ {u}
      base == raced \ {u}
  IN  IF others = {} THEN base ELSE base \cup {u} \cup others

\* the results a map write by goroutine u may have: the intended one, or, when the
\* write raced undetected, also the map left as it was
WriteOutcomes(u, intended) ==
  IF u \in raced THEN {intended, clients} ELSE {intended}

Init ==
  /\ crashed = FALSE
  /\ clients = {}
  /\ raced = {}
  /\ hpc = [c \in Conns |-> "idle"]
  /\ hmsg = [c \in Conns |-> NoMsg]
  /\ wsClosed = [c \in Conns |-> FALSE]
  /\ nframes = 0
  /\ bpc = "recv"
  /\ bmsg = NoMsg
  /\ bcur = 0
  /\ visited = {}
  /\ fresh = {}
  /\ kpc = "wait"
  /\ kmsg = NoMsg
  /\ brokerQ = <<>>
  /\ enq = <<>>
  /\ attempts = [c \in Conns |-> <<>>]
  /\ atDequeue = {}
  /\ removedBeforeTurn = {}
  /\ bdeleted = {}
  /\ upgradeFailed = {}
  /\ kreceived = <<>>
  /\ ksent = <<>>
  /\ openAtDequeue = {}
  /\ bfrom = 0
  /\ cpc = "idle"
  /\ ncalls = 0
  /\ cparams = NoParams
  /\ comments = {}
  /\ cmessage = NoMsg
  /\ amqpConn = FALSE
  /\ amqpChan = FALSE
  /\ puberr = None
  /\ cret = <<NoComment, None>>
  /\ chttp = 0
  /\ ptrace = <<>>
  /\ clogged = FALSE
  /\ published = <<>>
  /\ lpc = [k \in LikeCalls |-> "idle"]
  /\ largs = [k \in LikeCalls |-> NoLikeArgs]
  /\ lret = [k \in LikeCalls |-> None]
  /\ lhttp = [k \in LikeCalls |-> 0]
  /\ likes = {}
  /\ postLikes = [p \in ExistingPosts |-> 0]
  /\ lsawLike = {}
  /\ lincr = {}

\* ------------------------------------------------- range over ns.clients
\* mutant: the range forgets which keys it has produced
RangeRemaining_revisit == clients

\* keys the range has still to produce: an entry not yet reached and not removed
RangeRemaining == clients \ visited

\* mutant: the loop may leave the range before it is exhausted
RangeMayEnd_stopEarly == TRUE

\* the range may stop: every remaining key was created during the iteration
\* ("that entry may be produced during the iteration or may be skipped")
RangeMayEnd == RangeRemaining \subseteq fresh

\* a range over ns.clients is in progress
IterationRunning == bpc # "recv"

\* history: a key of the dequeue-time registry removed before the range reached it
NoteRemoved(newClients) ==
  removedBeforeTurn' =
    IF bpc = "recv" THEN removedBeforeTurn
    ELSE removedBeforeTurn \cup ((atDequeue \ visited) \ newClients)

NoteCreated(newClients) ==
  fresh' = IF IterationRunning THEN fresh \cup (newClients \ clients) ELSE fresh

hvars == <<hpc, hmsg, wsClosed, nframes>>
bvars == <<bpc, bmsg, bcur, visited>>
kvars == <<kpc, kmsg, brokerQ>>
khist == <<kreceived, ksent>>
cychist == <<openAtDequeue, bfrom>>
histvars == <<enq, attempts, atDequeue, bdeleted, upgradeFailed, khist, cychist>>

\* connections whose handler is Open: registered and reading, transport open
OpenConns == {c \in Conns : hpc[c] \in {"read", "send"} /\ ~wsClosed[c]}

\* the process ends (os.Exit, or the runtime's throw): its goroutines and its map
\* are gone and the operating system closes its sockets.  The broker keeps the
\* queue, and nframes keeps counting what the clients have sent
Exit ==
  /\ crashed' = TRUE
  /\ clients' = {}
  /\ raced' = {}
  /\ hpc' = [c \in Conns |-> "exited"]
  /\ hmsg' = [c \in Conns |-> NoMsg]
  /\ wsClosed' = [c \in Conns |-> TRUE]
  /\ bpc' = "exited"
  /\ bmsg' = NoMsg
  /\ bcur' = 0
  /\ visited' = {}
  /\ fresh' = {}
  /\ kpc' = "exited"
  /\ kmsg' = NoMsg
  /\ UNCHANGED <<nframes, brokerQ>>

\* ------------------------------------------------ handleConnections (per client)

\* line 32-39: upgrader.Upgrade succeeds, ws.Close is deferred and the handler
\* enters the map assignment ns.clients[ws] = true
UpgradeOk(c) ==
  /\ ~crashed
  /\ hpc[c] = "idle"
  /\ raced' = EnterAccess(c)
  /\ hpc' = [hpc EXCEPT ![c] = "adding"]
  /\ UNCHANGED <<tvars, crashed, clients, hmsg, wsClosed, nframes, bvars, fresh, kvars,
                 histvars, removedBeforeTurn>>

\* line 32-35: upgrader.Upgrade fails; log.Fatalf logs and calls os.Exit(1), so
\* the return below it is never reached and the whole process ends
UpgradeFail(c) ==
  /\ ~crashed
  /\ hpc[c] = "idle"
  /\ upgradeFailed' = upgradeFailed \cup {c}
  /\ Exit
  /\ UNCHANGED <<tvars, enq, attempts, atDequeue, bdeleted, removedBeforeTurn, khist,
                 cychist>>

\* line 39-42: the map assignment returns; the handler blocks in ReadMessage
RegisterEnd(c) ==
  /\ ~crashed
  /\ hpc[c] = "adding"
  /\ \E r \in WriteOutcomes(c, clients \cup {c}) :
       /\ clients' = r
       /\ NoteCreated(r)
  /\ raced' = raced \ {c}
  /\ hpc' = [hpc EXCEPT ![c] = "read"]
  /\ UNCHANGED <<tvars, crashed, hmsg, wsClosed, nframes, bvars, kvars, histvars,
                 removedBeforeTurn>>

\* line 42, 48: ws.ReadMessage returns a frame of the client
ReadFrame(c) ==
  /\ ~crashed
  /\ hpc[c] = "read"
  /\ ~wsClosed[c]
  /\ nframes < MaxFrames
  /\ \E m \in FrameTexts : hmsg' = [hmsg EXCEPT ![c] = m]
  /\ nframes' = nframes + 1
  /\ hpc' = [hpc EXCEPT ![c] = "send"]
  /\ UNCHANGED <<tvars, crashed, clients, raced, wsClosed, bvars, fresh, kvars, histvars,
                 removedBeforeTurn>>

\* line 42-45: ws.ReadMessage returns an error (the peer went away, or the
\* connection was closed under the read by handleMessages); the handler enters
\* delete(ns.clients, ws)
ReadError(c) ==
  /\ ~crashed
  /\ hpc[c] = "read"
  /\ raced' = EnterAccess(c)
  /\ hpc' = [hpc EXCEPT ![c] = "deleting"]
  /\ UNCHANGED <<tvars, crashed, clients, hmsg, wsClosed, nframes, bvars, fresh, kvars,
                 histvars, removedBeforeTurn>>

\* line 45-50, 37: the map delete returns; break; the deferred ws.Close() runs
UnregisterEnd(c) ==
  /\ ~crashed
  /\ hpc[c] = "deleting"
  /\ \E r \in WriteOutcomes(c, clients \ {c}) :
       /\ clients' = r
       /\ NoteRemoved(r)
  /\ raced' = raced \ {c}
  /\ wsClosed' = [wsClosed EXCEPT ![c] = TRUE]
  /\ hpc' = [hpc EXCEPT ![c] = "closed"]
  /\ UNCHANGED <<tvars, crashed, hmsg, nframes, bvars, fresh, kvars, histvars>>

\* ---------------------------------------------------- ns.broadcast (unbuffered)
\* mutant: the channel takes a message while handleMessages is busy
CanReceive_buffered == TRUE

\* line 27, 54: make(chan []byte) has capacity 0, so a send can complete only
\* while handleMessages is blocked in the receive
CanReceive == bpc = "recv"

\* line 54-55: message := <-ns.broadcast, then the range starts on ns.clients.
\* The channel has no buffer, so a send completes only in the step in which
\* handleMessages receives
Dequeue(m) ==
  /\ CanReceive
  /\ bmsg' = m
  /\ bpc' = "next"
  /\ raced' = EnterAccess(Broadcaster)
  /\ visited' = {}
  /\ fresh' = {}
  /\ enq' = Append(enq, m)
  /\ atDequeue' = clients
  /\ openAtDequeue' = OpenConns
  /\ removedBeforeTurn' = {}

\* line 48: ns.broadcast <- message, by the handler of client c
HandlerSend(c) ==
  /\ ~crashed
  /\ hpc[c] = "send"
  /\ Dequeue(hmsg[c])
  /\ hpc' = [hpc EXCEPT ![c] = "read"]
  /\ hmsg' = [hmsg EXCEPT ![c] = NoMsg]
  /\ bfrom' = c
  /\ UNCHANGED <<tvars, crashed, clients, wsClosed, nframes, bcur, kvars, attempts,
                 bdeleted, upgradeFailed, khist>>

\* ------------------------------------------- connectToRabbitMQ: the consumer
\* mutant: the delivery is not acknowledged and stays on the queue
AfterDelivery_requeue == brokerQ

\* line 90-98: Consume with autoAck = true: the broker drops a delivery as it
\* hands it over
AfterDelivery == Tail(brokerQ)

\* line 104: the next delivery of the queue
ConsumerReceive ==
  /\ ~crashed
  /\ kpc = "wait"
  /\ brokerQ # <<>>
  /\ kmsg' = Head(brokerQ)
  /\ brokerQ' = AfterDelivery
  /\ kreceived' = Append(kreceived, Head(brokerQ))
  /\ kpc' = "send"
  /\ UNCHANGED <<tvars, crashed, clients, raced, hvars, bvars, fresh, enq, attempts,
                 atDequeue, bdeleted, upgradeFailed, ksent, cychist, removedBeforeTurn>>

\* line 105: ns.broadcast <- msg.Body
ConsumerSend ==
  /\ ~crashed
  /\ kpc = "send"
  /\ Dequeue(kmsg)
  /\ kpc' = "wait"
  /\ kmsg' = NoMsg
  /\ ksent' = Append(ksent, kmsg)
  /\ bfrom' = Consumer
  /\ UNCHANGED <<tvars, crashed, clients, hvars, bcur, brokerQ, attempts, bdeleted,
                 upgradeFailed, kreceived>>

\* ------------------------------------------------------------ handleMessages
\* line 55: the range produces a key; WriteMessage is called on it
RangeNext ==
  /\ ~crashed
  /\ bpc = "next"
  /\ \E c \in RangeRemaining :
       /\ bcur' = c
       /\ visited' = visited \cup {c}
  /\ raced' = raced \ {Broadcaster}
  /\ bpc' = "write"
  /\ UNCHANGED <<tvars, crashed, clients, hvars, bmsg, fresh, kvars, histvars,
                 removedBeforeTurn>>

\* line 55, 62-63: the range is exhausted; back to the receive
RangeEnd ==
  /\ ~crashed
  /\ bpc = "next"
  /\ RangeMayEnd
  /\ raced' = raced \ {Broadcaster}
  /\ bpc' = "recv"
  /\ UNCHANGED <<tvars, crashed, clients, hvars, bmsg, bcur, visited, fresh, kvars, histvars,
                 removedBeforeTurn>>

\* history: one WriteMessage call on the current client
NoteAttempt(ok) ==
  attempts' = [attempts EXCEPT ![bcur] = Append(@, <<Len(enq), bmsg, ok>>)]

\* line 56-57, 62, 55: client.WriteMessage(websocket.TextMessage, message) returns
\* nil; the range asks for the next key
WriteOk ==
  /\ ~crashed
  /\ bpc = "write"
  /\ ~wsClosed[bcur]
  /\ NoteAttempt(TRUE)
  /\ raced' = EnterAccess(Broadcaster)
  /\ bpc' = "next"
  /\ UNCHANGED <<tvars, crashed, clients, hvars, bmsg, bcur, visited, fresh, kvars,
                 enq, atDequeue, bdeleted, upgradeFailed, removedBeforeTurn, khist,
                 cychist>>

\* line 56-60: client.WriteMessage returns an error; client.Close(); the loop
\* enters delete(ns.clients, client)
WriteFail ==
  /\ ~crashed
  /\ bpc = "write"
  /\ NoteAttempt(FALSE)
  /\ wsClosed' = [wsClosed EXCEPT ![bcur] = TRUE]
  /\ raced' = EnterAccess(Broadcaster)
  /\ bpc' = "deleting"
  /\ UNCHANGED <<tvars, crashed, clients, hpc, hmsg, nframes, bmsg, bcur, visited, fresh, kvars,
                 enq, atDequeue, bdeleted, upgradeFailed, removedBeforeTurn, khist,
                 cychist>>

\* line 60-62, 55: the map delete returns; the range asks for the next key
BroadcasterDeleteEnd ==
  /\ ~crashed
  /\ bpc = "deleting"
  /\ \E r \in WriteOutcomes(Broadcaster, clients \ {bcur}) :
       /\ clients' = r
       /\ NoteRemoved(r)
  /\ bdeleted' = bdeleted \cup {bcur}
  /\ raced' = EnterAccess(Broadcaster)
  /\ bpc' = "next"
  /\ UNCHANGED <<tvars, crashed, hvars, bmsg, bcur, visited, fresh, kvars, enq, attempts,
                 atDequeue, upgradeFailed, khist, cychist>>

\* the Go runtime notices the overlapping map operations and throws: the process
\* ends (line 39, 45, 55, 60: no lock orders them)
RuntimeFatal ==
  /\ ~crashed
  /\ raced # {}
  /\ Exit
  /\ UNCHANGED <<tvars, histvars, removedBeforeTurn>>

\* =========================================================== tweet process
nstate == <<crashed, clients, raced, hvars, bvars, fresh, kpc, kmsg, histvars,
            removedBeforeTurn>>

StatusOK == 200
StatusBadRequest == 400
StatusInternalServerError == 500

\* service.go line 196-202: the notification and its encoding.  json.Marshal of a
\* map[string]string writes the keys sorted; the fields are kept as they are
Notification(postID, ownerID) ==
  [type |-> "comment", postId |-> postID, userId |-> ownerID,
   message |-> <<"User ", ownerID, " commented on your post">>]

Marshal(n) == <<"message", n.message, "postId", n.postId, "type", n.type,
                "userId", n.userId>>

\* the comment the current request builds (comment.NewComment gives it a new id)
NewComment == [id |-> ncalls, postID |-> cparams.postID, ownerID |-> cparams.ownerID]

\* part_000 line 390-413: the handler decodes the request and calls the service
CallCreateComment(p, u) ==
  /\ cpc \in {"idle", "done"}
  /\ ncalls < MaxCalls
  /\ ncalls' = ncalls + 1
  /\ cparams' = [postID |-> p, ownerID |-> u]
  /\ cpc' = "exists"
  /\ cmessage' = NoMsg
  /\ puberr' = None
  /\ cret' = <<NoComment, None>>
  /\ chttp' = 0
  /\ ptrace' = <<>>
  /\ clogged' = FALSE
  /\ UNCHANGED <<nstate, lvars, brokerQ, comments, amqpConn, amqpChan, published>>

\* Service.CreateComment returns (c, err)
Return(c, err) ==
  /\ cret' = <<c, err>>
  /\ cpc' = "respond"

\* service.go line 176-183: s.repo.Exists
PostExists ==
  /\ cpc = "exists"
  /\ \/ /\ cparams.postID \in ExistingPosts
        /\ cpc' = "new"
        /\ UNCHANGED cret
     \/ /\ cparams.postID \notin ExistingPosts
        /\ Return(NoComment, "ErrPostNotFound")
     \/ Return(NoComment, "exists failed")
  /\ UNCHANGED <<nstate, lvars, brokerQ, ncalls, cparams, comments, cmessage, amqpConn, amqpChan,
                 puberr, chttp, ptrace, clogged, published>>

\* service.go line 185-188: comment.NewComment validates and returns the comment,
\* or ErrPostEmpty, ErrEmptyContent or ErrOwnerEmpty
BuildComment ==
  /\ cpc = "new"
  /\ \/ /\ cpc' = "create"
        /\ UNCHANGED cret
     \/ Return(NoComment, "ErrEmptyContent")
  /\ UNCHANGED <<nstate, lvars, brokerQ, ncalls, cparams, comments, cmessage, amqpConn, amqpChan,
                 puberr, chttp, ptrace, clogged, published>>

\* mutant: the insert error is not returned and the call goes on to publish
AfterCreateError_goOn == "dial"

\* position after s.commentRepo.Create returned an error
AfterCreateError == "respond"

\* service.go line 190-202: s.commentRepo.Create (part_001 line 23-28), and on
\* success the notification is built and encoded
CreateRow ==
  /\ cpc = "create"
  /\ \/ /\ comments' = comments \cup {NewComment}
        /\ cmessage' = Marshal(Notification(cparams.postID, cparams.ownerID))
        /\ cpc' = "dial"
        /\ UNCHANGED cret
     \/ /\ cret' = <<NoComment, "insert failed">>
        /\ cpc' = AfterCreateError
        /\ UNCHANGED <<comments, cmessage>>
  /\ UNCHANGED <<nstate, lvars, brokerQ, ncalls, cparams, amqpConn, amqpChan,
                 puberr, chttp, ptrace, clogged, published>>

\* mutant: publishNotification starts over after a failed broker call
AfterBrokerError_retry == "dial"

\* position after a broker call of publishNotification returned an error
AfterBrokerError == "log"

\* mutant: publishNotification returns without closing what it opened
PublishReturn_leak(err, next) ==
  /\ puberr' = err
  /\ cpc' = next
  /\ UNCHANGED <<amqpChan, amqpConn>>

\* publishNotification returns err; the deferred ch.Close() and conn.Close() run
PublishReturn(err, next) ==
  /\ puberr' = err
  /\ amqpChan' = FALSE
  /\ amqpConn' = FALSE
  /\ cpc' = next

\* service.go line 343-347: amqp.Dial
Dial ==
  /\ cpc = "dial"
  /\ \/ /\ amqpConn' = TRUE
        /\ ptrace' = Append(ptrace, <<"dial", TRUE>>)
        /\ cpc' = "channel"
        /\ UNCHANGED <<amqpChan, puberr>>
     \/ /\ ptrace' = Append(ptrace, <<"dial", FALSE>>)
        /\ PublishReturn("failed to connect to RabbitMQ", AfterBrokerError)
  /\ UNCHANGED <<nstate, lvars, brokerQ, ncalls, cparams, comments, cmessage, cret, chttp,
                 clogged, published>>

\* service.go line 349-353: conn.Channel
OpenChannel ==
  /\ cpc = "channel"
  /\ \/ /\ amqpChan' = TRUE
        /\ ptrace' = Append(ptrace, <<"channel", TRUE>>)
        /\ cpc' = "declare"
        /\ UNCHANGED <<amqpConn, puberr>>
     \/ /\ ptrace' = Append(ptrace, <<"channel", FALSE>>)
        /\ PublishReturn("failed to open a channel", AfterBrokerError)
  /\ UNCHANGED <<nstate, lvars, brokerQ, ncalls, cparams, comments, cmessage, cret, chttp,
                 clogged, published>>

\* service.go line 355-365: ch.QueueDeclare("notifications", durable)
QueueDeclare ==
  /\ cpc = "declare"
  /\ \/ /\ ptrace' = Append(ptrace, <<"declare", TRUE>>)
        /\ cpc' = "publish"
        /\ UNCHANGED <<amqpConn, amqpChan, puberr>>
     \/ /\ ptrace' = Append(ptrace, <<"declare", FALSE>>)
        /\ PublishReturn("failed to declare a queue", AfterBrokerError)
  /\ UNCHANGED <<nstate, lvars, brokerQ, ncalls, cparams, comments, cmessage, cret, chttp,
                 clogged, published>>

\* mutant: the message reaches the queue although ch.Publish reports an error
QueueAfterFailedPublish_delivered == Append(brokerQ, cmessage)

\* service.go line 367-379: the queue after a ch.Publish that returned an error
QueueAfterFailedPublish == brokerQ

\* service.go line 367-381: ch.Publish onto the queue, and the return
Publish ==
  /\ cpc = "publish"
  /\ \/ /\ brokerQ' = Append(brokerQ, cmessage)
        /\ published' = Append(published, ncalls)
        /\ ptrace' = Append(ptrace, <<"publish", TRUE>>)
        /\ PublishReturn(None, "log")
     \/ /\ ptrace' = Append(ptrace, <<"publish", FALSE>>)
        /\ PublishReturn("failed to publish a message", AfterBrokerError)
        /\ brokerQ' = QueueAfterFailedPublish
        /\ UNCHANGED published
  /\ UNCHANGED <<nstate, lvars, ncalls, cparams, comments, cmessage, cret, chttp, clogged>>

\* mutant: the error of publishNotification is returned to the handler
ReturnAfterPublish_propagate(c, err) == <<IF err = None THEN c ELSE NoComment, err>>

\* what Service.CreateComment returns once publishNotification has returned err
ReturnAfterPublish(c, err) == <<c, None>>

\* service.go line 205-209: the error of publishNotification is logged; return
LogAndReturn ==
  /\ cpc = "log"
  /\ clogged' = (puberr # None)
  /\ cret' = ReturnAfterPublish(NewComment, puberr)
  /\ cpc' = "respond"
  /\ UNCHANGED <<nstate, lvars, brokerQ, ncalls, cparams, comments, cmessage, amqpConn, amqpChan,
                 puberr, chttp, ptrace, published>>

\* part_000 line 415-434: the status the handler writes for what the service returned
ResponseStatus(ret) ==
  IF ret[2] # None
  THEN IF ret[2] \in {"ErrPostEmpty", "ErrEmptyContent", "ErrOwnerEmpty"}
       THEN StatusBadRequest
       ELSE StatusInternalServerError
  ELSE StatusOK

Respond ==
  /\ cpc = "respond"
  /\ chttp' = ResponseStatus(cret)
  /\ cpc' = "done"
  /\ UNCHANGED <<nstate, lvars, brokerQ, ncalls, cparams, comments, cmessage, amqpConn, amqpChan,
                 puberr, cret, ptrace, clogged, published>>

\* ------------------------------------------------------------ AddLike
\* The server runs every request in a goroutine of its own, so the statements of
\* two AddLike requests interleave; each SQL statement is one step.  The like
\* repository is an interface to Service.AddLike (service.go line 74-77): Exists
\* answers whether a like of (post, user) is stored, Create stores the like or
\* returns an error.

StatusCreated == 201
StatusNotFound == 404

\* the rows of the likes table for a post and a user
LikesOf(p, u) == {l \in likes : l.postID = p /\ l.userID = u}

\* the like a request builds (like.NewLike gives it an id of its own)
NewLike(k) == [id |-> k, postID |-> largs[k].postID, userID |-> largs[k].userID]

\* part_000 line 361-374: the handler has the post id and the user and calls
\* the service
CallAddLike(k, p, u) ==
  /\ lpc[k] = "idle"
  /\ largs' = [largs EXCEPT ![k] = [postID |-> p, userID |-> u]]
  /\ lpc' = [lpc EXCEPT ![k] = "postExists"]
  /\ UNCHANGED <<nvars, cvars, lret, lhttp, likes, postLikes, lsawLike, lincr>>

\* Service.AddLike returns err
LikeReturn(k, err) ==
  /\ lret' = [lret EXCEPT ![k] = err]
  /\ lpc' = [lpc EXCEPT ![k] = "respond"]

\* service.go line 295-302: s.repo.Exists
LikePostExists(k) ==
  /\ lpc[k] = "postExists"
  /\ \/ /\ largs[k].postID \in ExistingPosts
        /\ lpc' = [lpc EXCEPT ![k] = "likeExists"]
        /\ UNCHANGED lret
     \/ /\ largs[k].postID \notin ExistingPosts
        /\ LikeReturn(k, "ErrPostNotFound")
     \/ LikeReturn(k, "exists failed")
  /\ UNCHANGED <<nvars, cvars, largs, lhttp, likes, postLikes, lsawLike, lincr>>

\* service.go line 304-311: s.likeRepo.Exists
LikeExists(k) ==
  /\ lpc[k] = "likeExists"
  /\ \/ /\ LikesOf(largs[k].postID, largs[k].userID) = {}
        /\ lpc' = [lpc EXCEPT ![k] = "create"]
        /\ UNCHANGED lret
     \/ /\ LikesOf(largs[k].postID, largs[k].userID) # {}
        /\ LikeReturn(k, "ErrLikeAlreadyExists")
     \/ LikeReturn(k, "like exists failed")
  /\ UNCHANGED <<nvars, cvars, largs, lhttp, likes, postLikes, lsawLike, lincr>>

\* service.go line 313-322: like.NewLike, then s.likeRepo.Create stores the like
\* or returns an error
LikeCreate(k) ==
  /\ lpc[k] = "create"
  /\ lsawLike' = IF LikesOf(largs[k].postID, largs[k].userID) # {}
                 THEN lsawLike \cup {k} ELSE lsawLike
  /\ \/ /\ likes' = likes \cup {NewLike(k)}
        /\ lpc' = [lpc EXCEPT ![k] = "increment"]
        /\ UNCHANGED lret
     \/ /\ LikeReturn(k, "new like failed")
        /\ UNCHANGED likes
     \/ /\ LikeReturn(k, "like insert failed")
        /\ UNCHANGED likes
  /\ UNCHANGED <<nvars, cvars, largs, lhttp, postLikes, lincr>>

\* service.go line 325-330, repo.go line 101-105: UPDATE posts SET likes =
\* likes + 1, in one statement; its error is returned
LikeIncrement(k) ==
  /\ lpc[k] = "increment"
  /\ \/ /\ postLikes' = [postLikes EXCEPT ![largs[k].postID] = @ + 1]
        /\ lincr' = lincr \cup {k}
        /\ LikeReturn(k, None)
     \/ /\ LikeReturn(k, "update failed")
        /\ UNCHANGED <<postLikes, lincr>>
  /\ UNCHANGED <<nvars, cvars, largs, lhttp, likes, lsawLike>>

\* part_000 line 375-387: the status the handler writes for what AddLike returned
LikeStatus(err) ==
  IF err = None THEN StatusCreated
  ELSE IF err = "ErrPostNotFound" THEN StatusNotFound
  ELSE StatusBadRequest

LikeRespond(k) ==
  /\ lpc[k] = "respond"
  /\ lhttp' = [lhttp EXCEPT ![k] = LikeStatus(lret[k])]
  /\ lpc' = [lpc EXCEPT ![k] = "done"]
  /\ UNCHANGED <<nvars, cvars, largs, lret, likes, postLikes, lsawLike, lincr>>

NotifierNext ==
  \/ \E c \in Conns : UpgradeOk(c)
  \/ \E c \in Conns : UpgradeFail(c)
  \/ \E c \in Conns : RegisterEnd(c)
  \/ \E c \in Conns : ReadFrame(c)
  \/ \E c \in Conns : ReadError(c)
  \/ \E c \in Conns : HandlerSend(c)
  \/ \E c \in Conns : UnregisterEnd(c)
  \/ ConsumerReceive
  \/ ConsumerSend
  \/ RangeNext
  \/ RangeEnd
  \/ WriteOk
  \/ WriteFail
  \/ BroadcasterDeleteEnd
  \/ RuntimeFatal

TweetNext ==
  \/ \E p \in PostIDs, u \in UserIDs : CallCreateComment(p, u)
  \/ PostExists
  \/ BuildComment
  \/ CreateRow
  \/ Dial
  \/ OpenChannel
  \/ QueueDeclare
  \/ Publish
  \/ LogAndReturn
  \/ Respond

LikeNext ==
  \/ \E k \in LikeCalls, p \in PostIDs, u \in UserIDs : CallAddLike(k, p, u)
  \/ \E k \in LikeCalls : LikePostExists(k)
  \/ \E k \in LikeCalls : LikeExists(k)
  \/ \E k \in LikeCalls : LikeCreate(k)
  \/ \E k \in LikeCalls : LikeIncrement(k)
  \/ \E k \in LikeCalls : LikeRespond(k)

\* the notification pipeline: the notifier and the comment requests that feed it
Next == NotifierNext \/ TweetNext

Spec == Init /\ [][Next]_vars

\* the tweet process alone, the notifier not started
SpecTweet == Init /\ [][TweetNext]_vars

\* What the scheduling of the notifier guarantees.  A goroutine that can run does
\* run: handleMessages takes the next step of its range, a map operation that was
\* entered returns, and the consumer takes a delivery that is there.  A
\* WriteMessage returns, with nil or with an error.  A sender blocked on
\* ns.broadcast is served when handleMessages comes back to the receive, in the
\* order of the channel's wait queue, so it is not passed over for ever.  A
\* ReadMessage on a connection that was closed returns an error.  Nothing makes a
\* client connect, send a frame or leave, and nothing makes an upgrade fail or
\* the runtime notice a race.
Fairness ==
  /\ WF_vars(RangeNext \/ RangeEnd)
  /\ WF_vars(WriteOk \/ WriteFail)
  /\ WF_vars(BroadcasterDeleteEnd)
  /\ WF_vars(ConsumerReceive)
  /\ SF_vars(ConsumerSend)
  /\ \A c \in Conns :
       /\ SF_vars(HandlerSend(c))
       /\ WF_vars(RegisterEnd(c))
       /\ WF_vars(UnregisterEnd(c))
       /\ WF_vars(wsClosed[c] /\ ReadError(c))

SpecLive == Spec /\ Fairness

\* the AddLike requests of the tweet process; they share no state with the
\* notification pipeline
SpecLike == Init /\ [][LikeNext]_vars

\* ================================================================== claims

\* WriteMessage was called on c with the message of the current cycle
AttemptedCurrent(c) ==
  \E i \in DOMAIN attempts[c] :
    /\ attempts[c][i][1] = Len(enq)
    /\ attempts[c][i][2] = enq[Len(enq)]

\* handleMessages is back at the receive after at least one cycle
CycleDone == bpc = "recv" /\ enq # <<>>

\* C1: when a broadcast cycle has finished, WriteMessage has been called with the
\* dequeued payload on every connection that was in ns.clients at dequeue time and
\* was not removed before the range reached it, whatever the payload names.
C1_BroadcastToAllRegistered ==
  CycleDone => \A c \in atDequeue \ removedBeforeTurn : AttemptedCurrent(c)

\* C1 witness: a comment event about p1/u1 was written to both connected clients
C1_Witness ==
  /\ CycleDone
  /\ atDequeue = Conns
  /\ enq[Len(enq)] = Marshal(Notification("p1", "u1"))
  /\ \A c \in Conns : attempts[c] = <<<<Len(enq), enq[Len(enq)], TRUE>>>>

\* C2: on every connection the WriteMessage calls carry the payloads in the order
\* in which they went through ns.broadcast: the positions strictly increase (none
\* twice, none out of order) and each call carries the payload of its position.
C2_WritesInEnqueueOrder ==
  \A c \in Conns :
    /\ \A i \in DOMAIN attempts[c] :
         /\ attempts[c][i][1] \in DOMAIN enq
         /\ attempts[c][i][2] = enq[attempts[c][i][1]]
    /\ \A i, j \in DOMAIN attempts[c] :
         i < j => attempts[c][i][1] < attempts[c][j][1]

\* C2 witness: a connection was written a client frame and a broker event, the two
\* producers interleaved either way
C2_Witness ==
  \E c \in Conns :
    /\ Len(attempts[c]) = 2
    /\ attempts[c][1][2] # attempts[c][2][2]
    /\ attempts[c][1][3] /\ attempts[c][2][3]

\* C3 (as claimed): a connection whose write failed is closed and, once the
\* delete has returned, out of ns.clients; no connection gets the same message
\* twice; and the cycle still reaches every other registered connection.
C3_FailedWriteClosesAndRemoves ==
  /\ \A c \in bdeleted : ~crashed => (c \notin clients /\ wsClosed[c])
  /\ \A c \in Conns : \A i, j \in DOMAIN attempts[c] :
       i # j => attempts[c][i][1] # attempts[c][j][1]
  /\ C1_BroadcastToAllRegistered

\* C4: once commentRepo.Create has succeeded, Service.CreateComment returns the
\* created comment and a nil error whatever publishNotification returned, the
\* handler answers 200, the row stays, and a publish error is only logged.
C4_PublishFailureNotFatal ==
  /\ (cpc \in {"respond", "done"} /\ NewComment \in comments)
       => cret = <<NewComment, None>>
  /\ (cpc = "done" /\ NewComment \in comments) => chttp = StatusOK
  /\ (cpc \in {"respond", "done"} /\ puberr # None)
       => (clogged /\ NewComment \in comments)

\* C4 witness: the publish failed and the request was answered 200 with the row kept
C4_Witness ==
  /\ cpc = "done"
  /\ puberr = "failed to publish a message"
  /\ chttp = StatusOK
  /\ NewComment \in comments

\* C5: a CreateComment call puts at most one message on the queue, and
\* publishNotification makes each broker call at most once: after a call that
\* failed it makes no further call.
C5_AtMostOncePublish ==
  /\ \A i, j \in DOMAIN published : i # j => published[i] # published[j]
  /\ \A i, j \in DOMAIN ptrace : i # j => ptrace[i][1] # ptrace[j][1]
  /\ \A i \in DOMAIN ptrace : i < Len(ptrace) => ptrace[i][2]
  /\ Len(published) <= ncalls

\* C5 witness: the publish failed, the call is over and nothing is on the queue
C5_Witness ==
  /\ cpc = "done"
  /\ ptrace = <<<<"dial", TRUE>>, <<"channel", TRUE>>, <<"declare", TRUE>>,
                <<"publish", FALSE>>>>
  /\ published = <<>>

\* C6: publishNotification is entered only after commentRepo.Create has returned
\* success: every message on the queue is about a committed comment, and a call
\* that ended in ErrPostNotFound, a construction error or an insert error has made
\* no broker call.
C6_PublishOnlyAfterCommit ==
  /\ \A i \in DOMAIN published : \E c \in comments : c.id = published[i]
  /\ ptrace # <<>> => NewComment \in comments
  /\ (cpc \in {"respond", "done"} /\ cret[2] # None) => ptrace = <<>>

\* C6 witness: the insert failed and the call ended without a broker call
C6_Witness ==
  /\ cpc = "done"
  /\ cret = <<NoComment, "insert failed">>
  /\ ptrace = <<>>
  /\ published = <<>>

\* C7 (as claimed): a step in which an upgrade fails leaves the registry, the
\* connections, handleMessages and the consumer as they were, and running.
C7_UpgradeFailureIsLocal ==
  [][upgradeFailed' # upgradeFailed
       => (~crashed' /\ clients' = clients /\ wsClosed' = wsClosed
             /\ bpc' = bpc /\ kpc' = kpc)]_vars

\* C8 (as claimed): at most one goroutine is inside an operation on ns.clients.
C8_RegistryAccessExclusive == Cardinality(InRegistryAccess) <= 1

\* nothing is in progress: every handler is before its upgrade, blocked in
\* ReadMessage on an open connection or finished, and the loop and the consumer wait
Settled ==
  /\ ~crashed
  /\ bpc = "recv"
  /\ kpc = "wait"
  /\ \A c \in Conns : hpc[c] \in {"idle", "read", "closed"}
  /\ \A c \in Conns : hpc[c] = "read" => ~wsClosed[c]

\* C9 (as claimed): once everything has settled, ns.clients holds exactly the
\* connections whose handler is Open.
C9_RegistryMatchesOpen == Settled => clients = OpenConns

\* C10 (as claimed): after a WriteMessage on a connection has failed, no later
\* WriteMessage is called on that connection.
C10_NoWriteAfterFailure ==
  \A c \in Conns : \A i, j \in DOMAIN attempts[c] :
    i < j => attempts[c][i][3]

\* C11 (as claimed): a connection is in ns.clients only between its upgrade and
\* its handler's end: not before the upgrade, in it from the first read on (unless
\* handleMessages has deleted it after a failed write), and out of it, with the
\* transport closed, for good once the handler has ended.
C11_ConnectionLifecycle ==
  ~crashed => \A c \in Conns :
    /\ hpc[c] = "idle" => c \notin clients
    /\ hpc[c] \in {"read", "send"} => (c \in clients \/ c \in bdeleted)
    /\ hpc[c] = "closed" => (c \notin clients /\ wsClosed[c])

\* the payloads put onto the queue so far, in the order of their publication
PublishedPayloads ==
  [i \in DOMAIN published |->
     LET c == CHOOSE x \in comments : x.id = published[i]
     IN  Marshal(Notification(c.postID, c.ownerID))]

\* C12: the deliveries the consumer goroutine has taken, followed by what is still
\* on the queue, are exactly the published payloads in publication order (none
\* delivered twice, none changed); what it has sent on ns.broadcast is what it has
\* taken, in the same order, each once, but for the one delivery it is still
\* sending.
C12_ConsumerForwardsOnce ==
  /\ kreceived \o brokerQ = PublishedPayloads
  /\ Len(ksent) <= Len(kreceived)
  /\ ksent = SubSeq(kreceived, 1, Len(ksent))
  /\ Len(kreceived) <= Len(ksent) + 1
  /\ ~crashed => Len(kreceived) = Len(ksent) + (IF kpc = "send" THEN 1 ELSE 0)
  /\ kpc = "send" => kmsg = kreceived[Len(kreceived)]
  /\ \A i \in DOMAIN ksent : \E j \in DOMAIN enq : enq[j] = ksent[i]

\* C12 witness: the event of a comment went from the queue through the consumer to
\* a client, and the queue is empty
C12_Witness ==
  /\ CycleDone
  /\ published = <<1>>
  /\ brokerQ = <<>>
  /\ ksent = <<Marshal(Notification("p2", "u2"))>>
  /\ \E c \in Conns : attempts[c] = <<<<1, ksent[1], TRUE>>>>

\* C13 (as claimed): when the cycle of a frame sent by client A has finished, the
\* payload is the frame as A sent it, and it has been written to every other
\* connection that was Open when the frame was dequeued and still is.
C13_ClientFrameReachesOthers ==
  (CycleDone /\ bfrom \in Conns) =>
    /\ enq[Len(enq)] \in FrameTexts
    /\ \A c \in (openAtDequeue \cap OpenConns) \ {bfrom} :
         \E i \in DOMAIN attempts[c] :
           attempts[c][i] = <<Len(enq), enq[Len(enq)], TRUE>>

\* C14: every payload written to a client is a frame a client sent or a payload
\* that publishNotification put onto the queue, and a connection is written no
\* more events than were published; a call whose publishNotification returned an
\* error has put nothing onto the queue.
C14_OnlyPublishedReachClients ==
  /\ \A c \in Conns : \A i \in DOMAIN attempts[c] :
       \/ attempts[c][i][2] \in FrameTexts /\ nframes > 0
       \/ \E k \in DOMAIN published : PublishedPayloads[k] = attempts[c][i][2]
  /\ \A c \in Conns :
       Cardinality({i \in DOMAIN attempts[c] : attempts[c][i][2] \notin FrameTexts})
         <= Len(published)
  /\ (cpc \in {"log", "respond", "done"} /\ puberr # None)
       => \A k \in DOMAIN published : published[k] # ncalls

\* C14 witness: the publish of the comment failed and the request is over; a
\* broadcast cycle has finished and the clients were written a client's frame only
C14_Witness ==
  /\ cpc = "done"
  /\ puberr # None
  /\ NewComment \in comments
  /\ CycleDone
  /\ \E c \in Conns : attempts[c] # <<>>
  /\ \A c \in Conns : \A i \in DOMAIN attempts[c] : attempts[c][i][2] \in FrameTexts

\* C15: outside publishNotification no broker connection and no broker channel is
\* open: whatever it opened it has closed when it returns, on the dial, channel,
\* declare and publish failures and on success; inside, a channel is open only on
\* an open connection.
C15_BrokerResourcesReleased ==
  /\ cpc \notin {"channel", "declare", "publish"} => (~amqpConn /\ ~amqpChan)
  /\ amqpChan => amqpConn

\* C15 witness: publishNotification had opened the connection and the channel, the
\* queue declaration failed, and it has returned with both closed
C15_Witness ==
  /\ cpc = "log"
  /\ ptrace = <<<<"dial", TRUE>>, <<"channel", TRUE>>, <<"declare", FALSE>>>>
  /\ puberr = "failed to declare a queue"
  /\ ~amqpConn /\ ~amqpChan

\* C17 (as claimed): the connections written to in a cycle are exactly the ones
\* that were in ns.clients when its message was dequeued, whatever the handlers
\* add or remove while the cycle runs.
C17_IteratesSnapshot ==
  CycleDone => {c \in Conns : AttemptedCurrent(c)} = atDequeue

\* C18: a message goes through ns.broadcast only in a step in which
\* handleMessages is waiting in the receive, and it is that loop's message at
\* once; a handler or the consumer that has a message to send stays where it is
\* until that step (or the end of the process); and a frame is read only by a
\* handler that is in its read, not by one that is sending.
C18_UnbufferedQueue ==
  [][/\ enq' # enq =>
          (bpc = "recv" /\ bpc' = "next" /\ enq' = Append(enq, bmsg'))
     /\ \A c \in Conns :
          (hpc[c] = "send" /\ hpc'[c] # "send") =>
            (crashed' \/ (bpc = "recv" /\ enq' = Append(enq, hmsg[c])))
     /\ (kpc = "send" /\ kpc' # "send") =>
          (crashed' \/ (bpc = "recv" /\ enq' = Append(enq, kmsg)))
     /\ nframes' # nframes =>
          \E c \in Conns : hpc[c] = "read" /\ hpc'[c] = "send"]_vars

\* C18 witness: handleMessages is in a WriteMessage of the cycle of a broker event
\* while a handler holds a frame it cannot send yet
C18_Witness ==
  /\ bpc = "write"
  /\ bfrom = Consumer
  /\ \E c \in Conns : hpc[c] = "send" /\ hmsg[c] \in FrameTexts

\* C19 (as claimed): a payload the consumer or a handler is sending on
\* ns.broadcast is eventually received by handleMessages, and a cycle that has
\* begun eventually ends with handleMessages back in the receive.
C19_NoDeadlock ==
  /\ (kpc = "send") ~> (Len(ksent) = Len(kreceived))
  /\ \A c \in Conns : (hpc[c] = "send") ~> (hpc[c] = "read" /\ bfrom = c)
  /\ (bpc # "recv") ~> (bpc = "recv")

\* C20 (as claimed): once handleMessages has closed a connection and deleted it
\* after a failed write, the connection's handler eventually ends (Closed) with
\* the connection out of ns.clients; the handler's own delete of it then changes
\* nothing, and no handler's delete touches the entry of another connection.
C20_DoubleRemovalHarmless ==
  /\ \A c \in Conns :
       (c \in bdeleted /\ c \notin clients) ~> (hpc[c] = "closed" /\ c \notin clients)
  /\ [][\A c \in Conns :
          (hpc[c] = "deleting" /\ hpc'[c] = "closed") =>
            /\ clients' \ {c} = clients \ {c}
            /\ (c \in bdeleted /\ c \notin clients) => clients' = clients]_vars

\* every AddLike request has been answered, or has not been made
LikesQuiet == \A k \in LikeCalls : lpc[k] \in {"idle", "done"}

\* C21 (as claimed): no post has two likes of one user; and a request that got
\* to store its like while a like of the same post and user was already stored
\* returns ErrLikeAlreadyExists, stores nothing and increments nothing.
C21_AtMostOneLike ==
  /\ \A p \in PostIDs, u \in UserIDs : Cardinality(LikesOf(p, u)) <= 1
  /\ \A k \in lsawLike :
       lpc[k] \in {"respond", "done"} =>
         /\ lret[k] = "ErrLikeAlreadyExists"
         /\ NewLike(k) \notin likes
         /\ k \notin lincr

\* C22 (as claimed): once the requests have been answered, posts.likes of every
\* post is the number of likes stored for it; and a request that returned an
\* error has stored no like and incremented nothing.
C22_CounterMatchesRecords ==
  /\ LikesQuiet =>
       \A p \in ExistingPosts :
         postLikes[p] = Cardinality({l \in likes : l.postID = p})
  /\ \A k \in LikeCalls :
       (lpc[k] \in {"respond", "done"} /\ lret[k] # None) =>
         (NewLike(k) \notin likes /\ k \notin lincr)

====
